---------------------------- MODULE Spec2Model ----------------------------
(***************************************************************************)
(* A model of kalipso.c, the Kalipso-to-C transpiler: the tokenizer, the   *)
(* symbol table, the statement classifier and code generator, and the      *)
(* driver loop of main() with the emission of the C file and the call of   *)
(* the backend compiler.                                                   *)
(*                                                                         *)
(* Text is modelled as sequences of one-character strings, so that the     *)
(* tokenizer, the "v%d" formatting and the buffer lengths are computed     *)
(* character by character as the C code computes them.                     *)
(***************************************************************************)
EXTENDS Integers, Sequences, FiniteSets

(***************************************************************************)
(* Program constants (#define lines of kalipso.c).                         *)
(***************************************************************************)
MAX_VARS == 256

MAX_LINE == 1024

MAX_TOKENS == 100

MAX_LINES == 10000

\* tokenize(): a run of word characters is cut after 63 characters (i < 63),
\* the 64th byte of a token slot being its terminator.
TOKEN_CAP == 63

(***************************************************************************)
(* Character classes of <ctype.h> on the characters the inputs use.        *)
(***************************************************************************)
Letters ==
    {"a","b","c","d","e","f","g","h","i","j","k","l","m",
     "n","o","p","q","r","s","t","u","v","w","x","y","z",
     "A","B","C","D","E","F","G","H","I","J","K","L","M",
     "N","O","P","Q","R","S","T","U","V","W","X","Y","Z"}

DigitChars == <<"0","1","2","3","4","5","6","7","8","9">>

Digits == {DigitChars[i] : i \in 1..10}

isalpha(c) == c \in Letters

isalnum(c) == c \in Letters \cup Digits

isspace(c) == c \in {" ", "\t"}

\* The test of tokenize() for a character that continues a run.
IsWordChar(c) == isalnum(c) \/ c = "_"

Min(S) == CHOOSE m \in S : \A k \in S : m <= k

Rep(c, n) == [i \in 1..n |-> c]

\* The concatenation of a sequence of sequences.
RECURSIVE Flatten(_)
Flatten(ss) ==
    IF Len(ss) = 0 THEN <<>>
    ELSE IF Len(ss) = 1 THEN ss[1]
    ELSE LET m == Len(ss) \div 2 IN
         Flatten(SubSeq(ss, 1, m)) \o Flatten(SubSeq(ss, m + 1, Len(ss)))

(***************************************************************************)
(* is_identifier(s): s starts with a letter or '_' and goes on with        *)
(* letters, digits and '_'.  (A token is never empty.)                     *)
(***************************************************************************)
is_identifier(s) ==
    /\ Len(s) > 0
    /\ (isalpha(s[1]) \/ s[1] = "_")
    /\ \A i \in 2..Len(s) : IsWordChar(s[i])

(***************************************************************************)
(* tokenize(line, tokens, &count).  p is the read position (1-based), toks *)
(* the tokens stored so far.  The loop runs while there is a character     *)
(* left and fewer than MAX_TOKENS tokens are stored; it skips white space, *)
(* then stores either a run of word characters, cut after TOKEN_CAP of     *)
(* them, or one single other character.                                    *)
(***************************************************************************)
SkipSpace(line, p) ==
    Min({j \in p..(Len(line) + 1) : j = Len(line) + 1 \/ ~isspace(line[j])})

\* The position after the run that starts at q: the first position that is
\* past the line, holds no word character, or is TOKEN_CAP characters on.
RunEnd(line, q) ==
    Min({j \in q..(Len(line) + 1) :
            \/ j = Len(line) + 1
            \/ j - q >= TOKEN_CAP
            \/ ~IsWordChar(line[j])})

\* One turn of the while loop, on the read position p and the tokens stored;
\* a turn taken after the loop has ended changes nothing.
TokenizeStep(line, st) ==
    IF st.p > Len(line) \/ Len(st.toks) >= MAX_TOKENS THEN st
    ELSE LET q == SkipSpace(line, st.p) IN
         IF q > Len(line) THEN [p |-> q, toks |-> st.toks]
         ELSE IF IsWordChar(line[q])
              THEN LET e == RunEnd(line, q) IN
                   [p |-> e, toks |-> Append(st.toks, SubSeq(line, q, e - 1))]
              ELSE [p |-> q + 1, toks |-> Append(st.toks, <<line[q]>>)]

\* n turns of the loop, one after the other (split in halves to keep the
\* evaluation shallow).
RECURSIVE TokenizeLoop(_, _, _)
TokenizeLoop(line, st, n) ==
    IF n = 0 THEN st
    ELSE IF n = 1 THEN TokenizeStep(line, st)
    ELSE LET half == TokenizeLoop(line, st, n \div 2) IN
         IF half.p > Len(line) THEN half
         ELSE TokenizeLoop(line, half, n - (n \div 2))

\* Every turn but a last one that only skips white space stores a token and
\* consumes a character: the loop takes no more turns than the line has
\* characters and no more than MAX_TOKENS.
tokenize(line) ==
    TokenizeLoop(line, [p |-> 1, toks |-> <<>>],
                 IF Len(line) < MAX_TOKENS THEN Len(line) ELSE MAX_TOKENS).toks

\* error() that reports and returns instead of exiting.
error_NoExit(msg) == [pc |-> "read", exit_status |-> -1, stderr |-> msg]

(***************************************************************************)
(* error(msg): the message goes to stderr and the process exits with       *)
(* status 1.  The record is what the driver's state becomes.               *)
(***************************************************************************)
error(msg) == [pc |-> "exit", exit_status |-> 1, stderr |-> msg]

(***************************************************************************)
(* find_or_add_var(name) on the table vars[0..var_count-1], modelled as    *)
(* the sequence of the names in slot order (var_count = Len(vars)): the    *)
(* first slot holding the name, or else a new slot at the end, unless      *)
(* MAX_VARS slots are taken already.  Slots are numbered from 0.           *)
(***************************************************************************)
\* find_or_add_var without the search of the table.
find_or_add_var_NoSearch(vars, name) ==
    IF Len(vars) >= MAX_VARS
    THEN [idx |-> -1, vars |-> vars, err |-> "Too many variables"]
    ELSE [idx |-> Len(vars), vars |-> Append(vars, name), err |-> ""]

find_or_add_var(vars, name) ==
    LET hits == {i \in 1..Len(vars) : vars[i] = name} IN
    IF hits # {}
    THEN [idx |-> Min(hits) - 1, vars |-> vars, err |-> ""]
    ELSE IF Len(vars) >= MAX_VARS
         THEN [idx |-> -1, vars |-> vars, err |-> "Too many variables"]
         ELSE [idx |-> Len(vars), vars |-> Append(vars, name), err |-> ""]

(***************************************************************************)
(* The "%d" conversion of snprintf for a slot number (never negative).     *)
(***************************************************************************)
RECURSIVE FormatInt(_)
FormatInt(n) ==
    IF n < 10 THEN <<DigitChars[n + 1]>>
    ELSE FormatInt(n \div 10) \o <<DigitChars[(n % 10) + 1]>>

\* snprintf(tmp, sizeof(tmp), "v%d", slot)
SlotRef(slot) == <<"v">> \o FormatInt(slot)

(***************************************************************************)
(* The string constants of compile_line and of main.                       *)
(***************************************************************************)
KW_PRINT == <<"p","r","i","n","t">>

KW_INPUT == <<"i","n","p","u","t">>

\* "    printf(\"%lld\\n\", "
PRINT_HEAD ==
    <<" "," "," "," ","p","r","i","n","t","f","(","\"","%","l","l","d",
      "\\","n","\"",","," ">>

\* "    scanf(\"%%lld\", &v%d);"
ScanfLine(slot) ==
    <<" "," "," "," ","s","c","a","n","f","(","\"","%","l","l","d","\"",
      ","," ","&">> \o SlotRef(slot) \o <<")",";">>

\* "    v%d = "
AssignHead(slot) == <<" "," "," "," ">> \o SlotRef(slot) \o <<" ","="," ">>

(***************************************************************************)
(* The token loop shared by the print and the assignment branch, from      *)
(* token i (1-based) to the last: an identifier is resolved and its slot   *)
(* reference is appended with strcat, any other token is appended as it    *)
(* is, and a space follows every token but the last.  The output buffer is *)
(* kept at its full length: strcat does not check the size of the buffer.  *)
(***************************************************************************)
\* The body of the loop for token i, on the table, the buffer and the error
\* met so far (after an error the process has exited: nothing changes).
EmitToken(toks, st, i) ==
    IF st.err # "" THEN st
    ELSE LET sep == IF i < Len(toks) THEN <<" ">> ELSE <<>> IN
         IF is_identifier(toks[i])
         THEN LET r == find_or_add_var(st.vars, toks[i]) IN
              IF r.err # ""
              THEN [vars |-> r.vars, output |-> st.output, err |-> r.err]
              ELSE [vars |-> r.vars,
                    output |-> st.output \o SlotRef(r.idx) \o sep,
                    err |-> ""]
         ELSE [vars |-> st.vars, output |-> st.output \o toks[i] \o sep,
               err |-> ""]

\* The loop for tokens i..j (split in halves to keep the evaluation shallow).
RECURSIVE EmitRange(_, _, _, _)
EmitRange(toks, st, i, j) ==
    IF i > j THEN st
    ELSE IF i = j THEN EmitToken(toks, st, i)
    ELSE LET m == (i + j) \div 2
             first == EmitRange(toks, st, i, m) IN
         IF first.err # "" THEN first
         ELSE EmitRange(toks, first, m + 1, j)

EmitTokens(vars, toks, i, output) ==
    EmitRange(toks, [vars |-> vars, output |-> output, err |-> ""],
              i, Len(toks))

(***************************************************************************)
(* add_output_line(line) on output_lines[0..output_count-1].               *)
(***************************************************************************)
add_output_line(output_lines, text) ==
    IF Len(output_lines) >= MAX_LINES
    THEN [output_lines |-> output_lines, err |-> "Too many lines"]
    ELSE [output_lines |-> Append(output_lines, text), err |-> ""]

(***************************************************************************)
(* The order in which compile_line tests the statement forms.              *)
(***************************************************************************)
\* The assignment test without the count of three tokens.
StatementKind_NoCount(toks) ==
    IF toks[1] = KW_PRINT THEN "print"
    ELSE IF toks[1] = KW_INPUT THEN "input"
    ELSE IF Len(toks) >= 2 /\ toks[2] = <<"=">> THEN "assign"
    ELSE "invalid"

\* The assignment test taken before the tests for print and input.
StatementKind_AssignFirst(toks) ==
    IF Len(toks) >= 3 /\ toks[2] = <<"=">> THEN "assign"
    ELSE IF toks[1] = KW_PRINT THEN "print"
    ELSE IF toks[1] = KW_INPUT THEN "input"
    ELSE "invalid"

StatementKind(toks) ==
    IF toks[1] = KW_PRINT THEN "print"
    ELSE IF toks[1] = KW_INPUT THEN "input"
    ELSE IF Len(toks) >= 3 /\ toks[2] = <<"=">> THEN "assign"
    ELSE "invalid"

(***************************************************************************)
(* compile_line(line).  The result holds the symbol table and the          *)
(* generated lines as the call leaves them, the message of the error() it  *)
(* ran into ("" if none), and the text it built in its buffer `output`.    *)
(***************************************************************************)
Result(vars, output_lines, err, output) ==
    [vars |-> vars, output_lines |-> output_lines, err |-> err,
     output |-> output]

\* The end of the print and assignment branches: the closing text is
\* appended with strcat and the buffer is handed to add_output_line.
Finish(e, output_lines, closing) ==
    IF e.err # "" THEN Result(e.vars, output_lines, e.err, e.output)
    ELSE LET text == e.output \o closing
             a == add_output_line(output_lines, text) IN
         Result(e.vars, a.output_lines, a.err, text)

compile_line(vars, output_lines, line) ==
    IF Len(line) = 0 THEN Result(vars, output_lines, "", <<>>)
    ELSE
    LET toks == tokenize(line)
        kind == IF Len(toks) = 0 THEN "none" ELSE StatementKind(toks) IN
    CASE kind = "none" -> Result(vars, output_lines, "", <<>>)
      [] kind = "print" ->
            IF Len(toks) < 2
            THEN Result(vars, output_lines, "print needs an argument", <<>>)
            ELSE Finish(EmitTokens(vars, toks, 2, PRINT_HEAD),
                        output_lines, <<")", ";">>)
      [] kind = "input" ->
            IF Len(toks) # 2
            THEN Result(vars, output_lines, "input needs one variable", <<>>)
            ELSE IF ~is_identifier(toks[2])
            THEN Result(vars, output_lines, "input needs a variable name",
                        <<>>)
            ELSE LET r == find_or_add_var(vars, toks[2]) IN
                 IF r.err # ""
                 THEN Result(r.vars, output_lines, r.err, <<>>)
                 ELSE LET text == ScanfLine(r.idx)
                          a == add_output_line(output_lines, text) IN
                      Result(r.vars, a.output_lines, a.err, text)
      [] kind = "assign" ->
            IF ~is_identifier(toks[1])
            THEN Result(vars, output_lines, "Left side must be a variable",
                        <<>>)
            ELSE LET r == find_or_add_var(vars, toks[1]) IN
                 IF r.err # ""
                 THEN Result(r.vars, output_lines, r.err, <<>>)
                 ELSE Finish(EmitTokens(r.vars, toks, 3, AssignHead(r.idx)),
                             output_lines, <<";">>)
      [] OTHER -> Result(vars, output_lines, "Invalid statement", <<>>)

\* The buffer `output` of compile_line holds MAX_LINE bytes: a text and its
\* terminator fit when the text has fewer than MAX_LINE characters.
Overflows(output) == Len(output) + 1 > MAX_LINE

(***************************************************************************)
(* fgets(line, sizeof(line), in) followed by the removal of the newline.   *)
(* The file is a sequence of lines, each ended by a newline; (ln, off) is  *)
(* the read position: line ln, off characters of it consumed.  At most     *)
(* MAX_LINE - 1 characters are read; the newline is read with them only    *)
(* when it is among these, and then the next line is the next to read.     *)
(***************************************************************************)
fgets(file, ln, off) ==
    LET rest == SubSeq(file[ln], off + 1, Len(file[ln])) IN
    IF Len(rest) + 1 <= MAX_LINE - 1
    THEN [line |-> rest, ln |-> ln + 1, off |-> 0]
    ELSE [line |-> SubSeq(rest, 1, MAX_LINE - 1), ln |-> ln,
          off |-> off + MAX_LINE - 1]

(***************************************************************************)
(* The C file main() writes: the include line, an empty line, the head of  *)
(* main, the declaration of the slots if there is any, the generated       *)
(* lines, the return and the closing brace.                                *)
(***************************************************************************)
\* "v%d = 0" and, but for the last slot, ", "
DeclEntry(i, var_count) ==
    SlotRef(i) \o <<" ","="," ","0">>
    \o (IF i < var_count - 1 THEN <<",", " ">> ELSE <<>>)

DeclEntries(i, var_count) ==
    Flatten([k \in 1..(var_count - i) |-> DeclEntry(i + k - 1, var_count)])

\* The declaration that stops one slot short.
Declarations_OneShort(var_count) ==
    IF var_count > 1
    THEN << <<" "," "," "," ","l","o","n","g"," ","l","o","n","g"," ">>
            \o DeclEntries(0, var_count - 1) \o <<";">> >>
    ELSE <<>>

Declarations(var_count) ==
    IF var_count > 0
    THEN << <<" "," "," "," ","l","o","n","g"," ","l","o","n","g"," ">>
            \o DeclEntries(0, var_count) \o <<";">> >>
    ELSE <<>>

PREAMBLE ==
    << <<"#","i","n","c","l","u","d","e"," ","<","s","t","d","i","o",".",
         "h",">">>,
       <<>>,
       <<"i","n","t"," ","m","a","i","n","(",")"," ","{">> >>

EPILOGUE ==
    << <<" "," "," "," ","r","e","t","u","r","n"," ","0",";">>, <<"}">> >>

\* The declaration written after the generated lines.
WriteProgram_DeclLast(vars, output_lines) ==
    PREAMBLE \o output_lines \o Declarations(Len(vars)) \o EPILOGUE

WriteProgram(vars, output_lines) ==
    PREAMBLE \o Declarations(Len(vars)) \o output_lines \o EPILOGUE

(***************************************************************************)
(* Bounds of the inputs.                                                   *)
(***************************************************************************)
\* The longest line, in tokens, of the lines enumerated over Vocab.
MaxToks == 3

\* The longest source file, in lines, of the files built from StmtLines.
MaxFileLines == 3

(***************************************************************************)
(* The source files the driver is run on.                                  *)
(***************************************************************************)
JoinSp(ts) ==
    Flatten([i \in 1..Len(ts) |->
                IF i < Len(ts) THEN ts[i] \o <<" ">> ELSE ts[i]])

Vocab == {KW_PRINT, KW_INPUT, <<"x">>, <<"y">>, <<"=">>, <<"5">>, <<"+">>}

RECURSIVE SeqsOver(_, _)
SeqsOver(S, n) ==
    IF n = 0 THEN {<<>>}
    ELSE {Append(s, e) : s \in SeqsOver(S, n - 1), e \in S}

SeqsUpTo(S, n) == UNION {SeqsOver(S, k) : k \in 0..n}

\* Every line of one to MaxToks words of Vocab, the words a space apart.
VocabLines == {JoinSp(ts) : ts \in SeqsUpTo(Vocab, MaxToks) \ {<<>>}}

L_x_is_5 == <<"x"," ","="," ","5">>

L_y_is_10 == <<"y","=","1","0">>

L_result == <<"r","e","s","u","l","t"," ","="," ","x"," ","+"," ","y">>

L_print_result == <<"p","r","i","n","t"," ","r","e","s","u","l","t">>

L_input_y == <<"\t","i","n","p","u","t"," ","y"," ">>

L_comment == <<" "," ","#"," ","x"," ","="," ","5">>

L_blank == <<" ","\t">>

L_print_expr == <<"p","r","i","n","t"," ","(","x","+","z",")","*","2">>

L_foo_bar == <<"f","o","o"," ","b","a","r">>

StmtLines ==
    {L_x_is_5, L_y_is_10, L_result, L_print_result, L_input_y, L_comment,
     L_blank, L_print_expr, L_foo_bar}

\* "1+1+...": n characters, digits and operators in turn.
Sum(n) == [i \in 1..n |-> IF i % 2 = 1 THEN "1" ELSE "+"]

\* An assignment of MAX_TOKENS + 1 tokens, and one of MAX_TOKENS tokens.
L_tokens_over == <<"x", "=">> \o Sum(MAX_TOKENS - 1)

L_tokens_full == <<"x", "=", "(">> \o Sum(MAX_TOKENS - 3)

\* A run of TOKEN_CAP + 1 digits, one of TOKEN_CAP + 1 letters, and a run
\* of TOKEN_CAP digits.
L_run_over == <<"x", "=">> \o Rep("7", TOKEN_CAP + 1)

L_name_over == KW_PRINT \o <<" ">> \o Rep("a", TOKEN_CAP + 1)

L_run_full == <<"x", "=">> \o Rep("7", TOKEN_CAP)

\* Lines of MAX_LINE - 1 and of MAX_LINE - 2 characters: "print" and one
\* long number; "print", white space and a name.
L_print_digits == KW_PRINT \o <<" ">> \o Rep("7", MAX_LINE - 1 - 6)

L_assign_digits == <<"y", "=">> \o Rep("7", MAX_LINE - 2 - 2)

L_print_spaces == KW_PRINT \o Rep(" ", MAX_LINE - 2 - 6) \o <<"x">>

\* A comment of more than MAX_LINE - 1 characters.
L_long_comment == <<"#">> \o Rep(" ", MAX_LINE - 2) \o <<"x", "=", "5">>

SpecialLines ==
    {L_tokens_over, L_tokens_full, L_run_over, L_name_over, L_run_full,
     L_print_digits, L_assign_digits, L_print_spaces, L_long_comment}

\* The name "n<i>" in three digits, and a file that prints MAX_TOKENS - 1
\* new variables per line until more than MAX_VARS were named.
VarName(i) ==
    <<"n", DigitChars[(i \div 100) + 1], DigitChars[((i \div 10) % 10) + 1],
      DigitChars[(i % 10) + 1]>>

PrintVarsLine(k) ==
    KW_PRINT \o Flatten([j \in 1..(MAX_TOKENS - 1) |->
                            <<" ">> \o VarName((k - 1) * (MAX_TOKENS - 1) + j - 1)])

ManyVarsFile ==
    [k \in 1..((MAX_VARS \div (MAX_TOKENS - 1)) + 1) |-> PrintVarsLine(k)]

SourceFiles ==
    UNION { SeqsUpTo(StmtLines, MaxFileLines),
            {pre \o <<l>> : pre \in {<<>>, <<L_result>>}, l \in VocabLines},
            {<<l>> : l \in SpecialLines},
            {<<L_x_is_5, l, L_print_result>> : l \in SpecialLines},
            {ManyVarsFile, SubSeq(ManyVarsFile, 1, 2)} }

(***************************************************************************)
(* The state of a run of main().                                           *)
(***************************************************************************)
VARIABLES
    file,          \* the source file: its lines, each ended by a newline
    ln, off,       \* the read position of `in`: line ln, off characters read
    line,          \* main's buffer `line`, after the removal of the newline
    vars,          \* the symbol table, names in slot order
    output_lines,  \* the generated lines
    output,        \* the text compile_line built in its buffer `output`
    pc,            \* "read": the loop; "build": before system(); "exit"
    exit_status,   \* the exit status, -1 while running
    stderr,        \* the message written to stderr, "" if none
    out_file,      \* the lines written to the C file, <<>> if never opened
    backend        \* "none", or the outcome of system(): "ok" or "failed"

state ==
    <<file, ln, off, line, vars, output_lines, output, pc, exit_status,
      stderr, out_file, backend>>

\* The run starts where main() has opened the source file and is about to
\* read its first line; the globals are as the program text initialises them.
Init ==
    /\ file \in SourceFiles
    /\ ln = 1
    /\ off = 0
    /\ line = <<>>
    /\ vars = <<>>
    /\ output_lines = <<>>
    /\ output = <<>>
    /\ pc = "read"
    /\ exit_status = -1
    /\ stderr = ""
    /\ out_file = <<>>
    /\ backend = "none"

(***************************************************************************)
(* One turn of the loop of main(): fgets, the removal of the newline, the  *)
(* skip of a blank or comment line, and compile_line on the rest.  A text  *)
(* longer than the buffer `output` has been written past its end by        *)
(* strcat: the behaviour is undefined, and the model lets the run either   *)
(* go on as if the buffer had been large enough or be killed when          *)
(* compile_line returns.                                                   *)
(***************************************************************************)
Outcomes(r) == IF Overflows(r.output) THEN {"benign", "abort"} ELSE {"benign"}

ReadLine ==
    /\ pc = "read"
    /\ ln <= Len(file)
    /\ LET g == fgets(file, ln, off)
           p == SkipSpace(g.line, 1)
       IN /\ line' = g.line
          /\ ln' = g.ln
          /\ off' = g.off
          /\ IF p > Len(g.line) \/ g.line[p] = "#"
             THEN UNCHANGED <<vars, output_lines, output, pc, exit_status,
                              stderr>>
             ELSE LET r == compile_line(vars, output_lines,
                                        SubSeq(g.line, p, Len(g.line)))
                  IN /\ vars' = r.vars
                     /\ output_lines' = r.output_lines
                     /\ output' = r.output
                     /\ IF r.err # ""
                        THEN LET e == error(r.err) IN
                             /\ pc' = e.pc
                             /\ exit_status' = e.exit_status
                             /\ stderr' = e.stderr
                        ELSE \E outcome \in Outcomes(r) :
                                IF outcome = "abort"
                                THEN /\ pc' = "exit"
                                     /\ exit_status' = 134
                                     /\ UNCHANGED stderr
                                ELSE UNCHANGED <<pc, exit_status, stderr>>
    /\ UNCHANGED <<file, out_file, backend>>

(***************************************************************************)
(* The end of the input: the C file is opened and written, unless fopen    *)
(* fails.                                                                  *)
(***************************************************************************)
WriteOutput ==
    /\ pc = "read"
    /\ ln > Len(file)
    /\ \E opened \in BOOLEAN :
          IF opened
          THEN /\ out_file' = WriteProgram(vars, output_lines)
               /\ pc' = "build"
               /\ UNCHANGED <<exit_status, stderr>>
          ELSE /\ pc' = "exit"
               /\ exit_status' = 1
               /\ stderr' = "Failed to create output file"
               /\ UNCHANGED out_file
    /\ UNCHANGED <<file, ln, off, line, vars, output_lines, output, backend>>

(***************************************************************************)
(* system(compile_cmd): the backend compiler succeeds or fails.            *)
(***************************************************************************)
RunBackend ==
    /\ pc = "build"
    /\ \E result \in {0, 1} :
          /\ backend' = IF result # 0 THEN "failed" ELSE "ok"
          /\ exit_status' = IF result # 0 THEN 1 ELSE 0
          /\ stderr' = IF result # 0 THEN "Compilation failed!" ELSE stderr
    /\ pc' = "exit"
    /\ UNCHANGED <<file, ln, off, line, vars, output_lines, output, out_file>>

Next == ReadLine \/ WriteOutput \/ RunBackend

Spec == Init /\ [][Next]_state

(***************************************************************************)
(* Notions the properties are stated in.                                   *)
(***************************************************************************)
Last(q) == q[Len(q)]

IsPrefix(a, b) == Len(a) <= Len(b) /\ SubSeq(b, 1, Len(a)) = a

\* The tokens of a text as the language defines them: every maximal run of
\* letters, digits and '_', and every other character that is no white
\* space, from left to right.
IsLexStart(text, j) ==
    /\ ~isspace(text[j])
    /\ (~IsWordChar(text[j]) \/ j = 1 \/ ~IsWordChar(text[j - 1]))

LexStarts(text) ==
    SelectSeq([j \in 1..Len(text) |-> j], LAMBDA j : IsLexStart(text, j))

LexAt(text, j) ==
    IF IsWordChar(text[j])
    THEN SubSeq(text, j,
                Min({k \in j..(Len(text) + 1) :
                        k = Len(text) + 1 \/ ~IsWordChar(text[k])}) - 1)
    ELSE <<text[j]>>

Lex(text) ==
    LET st == LexStarts(text) IN
    [k \in 1..Len(st) |-> LexAt(text, st[k])]

\* A line the driver is to skip: blank, or a comment.
IsBlankOrComment(text) ==
    \/ \A j \in 1..Len(text) : isspace(text[j])
    \/ text[Min({j \in 1..Len(text) : ~isspace(text[j])})] = "#"

\* The statement forms of the language, on a sequence of tokens.
IsPrintForm(t) == Len(t) >= 2 /\ t[1] = KW_PRINT

IsInputForm(t) == Len(t) = 2 /\ t[1] = KW_INPUT /\ is_identifier(t[2])

IsAssignForm(t) ==
    /\ Len(t) >= 3
    /\ t[1] \notin {KW_PRINT, KW_INPUT}
    /\ t[2] = <<"=">>
    /\ is_identifier(t[1])

IsStatement(t) == IsPrintForm(t) \/ IsInputForm(t) \/ IsAssignForm(t)

Idents(t) == SelectSeq(t, is_identifier)

\* The names a statement refers to: the target of an assignment first, then
\* the names of the expression from left to right.
References(t) ==
    IF IsPrintForm(t) THEN Idents(SubSeq(t, 2, Len(t)))
    ELSE IF IsInputForm(t) THEN <<t[2]>>
    ELSE IF IsAssignForm(t) THEN <<t[1]>> \o Idents(SubSeq(t, 3, Len(t)))
    ELSE <<>>

\* What the driver has read of the file so far, in the pieces it read it in:
\* a line of the file is read in pieces of MAX_LINE - 1 characters.
PiecesOf(l) ==
    [k \in 1..((Len(l) \div (MAX_LINE - 1)) + 1) |->
        SubSeq(l, (k - 1) * (MAX_LINE - 1) + 1,
               Min({Len(l), k * (MAX_LINE - 1)}))]

PiecesRead ==
    Flatten([i \in 1..Len(file) |->
                IF i < ln THEN PiecesOf(file[i])
                ELSE IF i = ln
                     THEN SubSeq(PiecesOf(file[i]), 1, off \div (MAX_LINE - 1))
                     ELSE <<>>])

\* The statements handed to compile_line so far, as token sequences.
StatementsRead ==
    LET ps == SelectSeq(PiecesRead, LAMBDA c : ~IsBlankOrComment(c)) IN
    [k \in 1..Len(ps) |-> tokenize(ps[k])]

\* The messages of the fatal errors of the translation.
LimitErrors == {"Too many variables", "Too many lines"}

FormErrors ==
    {"print needs an argument", "input needs one variable",
     "input needs a variable name", "Left side must be a variable",
     "Invalid statement"}

TranslationErrors == LimitErrors \cup FormErrors

\* A step of the loop of main(): it leaves the line read in `line`.
IsReadStep == pc = "read" /\ ln <= Len(file)

\* The number a text of digits denotes, and the slot a reference "v<k>"
\* names (-1 for a text that is no such reference).
RECURSIVE ParseNat(_)
ParseNat(ds) ==
    IF Len(ds) = 0 THEN 0
    ELSE 10 * ParseNat(SubSeq(ds, 1, Len(ds) - 1))
         + (CHOOSE d \in 0..9 : DigitChars[d + 1] = Last(ds))

SlotOfRef(tok) ==
    IF /\ Len(tok) >= 2
       /\ tok[1] = "v"
       /\ \A i \in 2..Len(tok) : tok[i] \in Digits
       /\ (Len(tok) = 2 \/ tok[2] # "0")
    THEN ParseNat(Tail(tok))
    ELSE -1

\* The slots a text refers to.
SlotsIn(text) ==
    LET toks == Lex(text) IN
    {SlotOfRef(toks[k]) : k \in 1..Len(toks)} \ {-1}

AllReferences ==
    LET stmts == StatementsRead IN
    Flatten([k \in 1..Len(stmts) |-> References(stmts[k])])

\* The slot the table gives a name (-1 if it holds none).
SlotOfName(name) ==
    IF \E i \in 1..Len(vars) : vars[i] = name
    THEN (CHOOSE i \in 1..Len(vars) : vars[i] = name) - 1
    ELSE -1

FirstReferences(refs) ==
    {i \in 1..Len(refs) : \A j \in 1..(i - 1) : refs[j] # refs[i]}

(***************************************************************************)
(* C1.  After any sequence of compiled statements the symbol table holds   *)
(* the names the statements refer to in the order of their first           *)
(* reference: the name first referenced at position i of the sequence of   *)
(* all references (statements in source order, in an assignment the target *)
(* first, then left to right) has the slot that counts the names first     *)
(* referenced before i.  Hence the slots are 0..var_count-1 without gap or *)
(* repetition, and a name keeps its slot whatever statement refers to it   *)
(* later: the line generated for a statement refers to exactly the slots   *)
(* the table gives the names of the statement.                             *)
(***************************************************************************)
C1_SlotsInFirstUseOrder ==
    stderr \notin TranslationErrors =>
        LET refs  == AllReferences
            first == FirstReferences(refs)
            stmts == StatementsRead IN
        /\ Len(vars) = Cardinality(first)
        /\ \A i \in first :
              vars[Cardinality({j \in first : j < i}) + 1] = refs[i]
        /\ Len(output_lines) = Len(stmts)
        /\ \A k \in 1..Len(stmts) :
              SlotsIn(output_lines[k]) =
                 {SlotOfName(References(stmts[k])[m]) :
                     m \in 1..Len(References(stmts[k]))}

\* "input y", then "result = x + y", then "print result": y is resolved as
\* an input target and on a right-hand side, result as a target and as a
\* print argument.
C1_Witness ==
    /\ file = <<L_input_y, L_result, L_print_result>>
    /\ pc = "build"
    /\ vars = << <<"y">>, <<"r","e","s","u","l","t">>, <<"x">> >>

ExceedsTokenLimits(text) ==
    LET toks == Lex(text) IN
    \/ Len(toks) > MAX_TOKENS
    \/ \E k \in 1..Len(toks) : Len(toks[k]) > TOKEN_CAP

(***************************************************************************)
(* C2.  A line with more than MAX_TOKENS tokens, or with a run of more     *)
(* than TOKEN_CAP letters, digits and '_', ends the run by a fatal error:  *)
(* once the driver has handed such a line to compile_line, the process has *)
(* exited with status 1 and an error message.                              *)
(***************************************************************************)
C2_TokenLimitsAreFatal ==
    (~IsBlankOrComment(line) /\ ExceedsTokenLimits(line)) =>
        /\ pc = "exit"
        /\ exit_status = 1
        /\ stderr \in TranslationErrors

DECL_HEAD == <<" "," "," "," ","l","o","n","g"," ","l","o","n","g"," ">>

IsDeclaration(text) == IsPrefix(DECL_HEAD, text)

DeclaredSlots(f) ==
    UNION {SlotsIn(f[i]) : i \in {j \in 1..Len(f) : IsDeclaration(f[j])}}

UsedSlots(f) ==
    UNION {SlotsIn(f[i]) : i \in {j \in 1..Len(f) : ~IsDeclaration(f[j])}}

(***************************************************************************)
(* C3.  In a C file that was written, the slots declared are the slots the *)
(* generated lines refer to: every reference v<k> of a body line is        *)
(* declared (k < var_count), and every slot declared, 0..var_count-1,      *)
(* belongs to a name of its own that a statement of the source refers to   *)
(* and occurs in a generated line.                                         *)
(***************************************************************************)
C3_DeclaredIsReferenced ==
    out_file # <<>> =>
        LET declared == DeclaredSlots(out_file)
            used     == UsedSlots(out_file)
            stmts    == StatementsRead IN
        /\ used \subseteq declared
        /\ declared = 0..(Len(vars) - 1)
        /\ declared \subseteq used
        /\ \A i, j \in 1..Len(vars) : vars[i] = vars[j] => i = j
        /\ \A i \in 1..Len(vars) :
              \E k \in 1..Len(stmts) :
                 \E m \in 1..Len(stmts[k]) : stmts[k][m] = vars[i]

C3_Witness ==
    /\ file = <<L_x_is_5, L_y_is_10, L_result>>
    /\ out_file # <<>>
    /\ DeclaredSlots(out_file) = {0, 1, 2}
    /\ UsedSlots(out_file) = {0, 1, 2}

(***************************************************************************)
(* C4.  A line handed to compile_line appends exactly one generated line   *)
(* if its tokens have one of the three statement forms, and otherwise ends *)
(* the run by a fatal error with no line appended; the errors of the       *)
(* variable and line limits apart.                                         *)
(***************************************************************************)
C4_OneLineIffStatement ==
    [][ (IsReadStep /\ ~IsBlankOrComment(line') /\ stderr' \notin LimitErrors)
        => LET t == tokenize(line') IN
           /\ Len(t) > 0
           /\ IsStatement(t) =>
                 /\ Len(output_lines') = Len(output_lines) + 1
                 /\ SubSeq(output_lines', 1, Len(output_lines)) = output_lines
                 /\ stderr' = ""
           /\ ~IsStatement(t) =>
                 /\ output_lines' = output_lines
                 /\ pc' = "exit"
                 /\ exit_status' = 1
                 /\ stderr' \in FormErrors
      ]_state

\* "foo bar" after two statements: no third line, and the run has ended.
C4_Witness ==
    /\ file = <<L_x_is_5, L_print_expr, L_foo_bar>>
    /\ line = L_foo_bar
    /\ Len(output_lines) = 2
    /\ pc = "exit"
    /\ stderr = "Invalid statement"

(***************************************************************************)
(* C5.  A fatal error of the translation ends the run before the C file is *)
(* opened: in a run that met one, no file was written and the backend was  *)
(* not called; and the file is written, and the backend called, only when  *)
(* the whole source was read and every statement of it gave its line.      *)
(***************************************************************************)
C5_NoOutputAfterError ==
    /\ stderr \in TranslationErrors =>
          /\ pc = "exit"
          /\ exit_status = 1
          /\ out_file = <<>>
          /\ backend = "none"
    /\ (out_file # <<>> \/ backend # "none") =>
          /\ out_file # <<>>
          /\ ln > Len(file)
          /\ stderr \notin TranslationErrors
          /\ LET stmts == StatementsRead IN
             /\ Len(output_lines) = Len(stmts)
             /\ \A k \in 1..Len(stmts) : IsStatement(stmts[k])

\* An error in the second of three lines: the first line was generated, the
\* third was never read, no file was written.
C5_Witness ==
    /\ file = <<L_x_is_5, L_foo_bar, L_print_result>>
    /\ pc = "exit"
    /\ stderr = "Invalid statement"
    /\ ln = 3
    /\ Len(output_lines) = 1
    /\ out_file = <<>>
    /\ backend = "none"

SCANF_HEAD ==
    <<" "," "," "," ","s","c","a","n","f","(","\"","%","l","l","d","\"",
      ","," ","&","v">>

NewNames == {vars'[i] : i \in (Len(vars) + 1)..Len(vars')}

(***************************************************************************)
(* C6.  A line whose first token is print or input is handled as a print   *)
(* or an input statement whatever follows, a '=' included: the line it     *)
(* generates, if any, is a printf or a scanf line and never an assignment, *)
(* the first token is not resolved as a variable, "print" with a further   *)
(* token gives a printf line, and "input" with other than one further      *)
(* token is a fatal error.                                                 *)
(***************************************************************************)
C6_KeywordFirst ==
    [][ (IsReadStep /\ ~IsBlankOrComment(line'))
        => LET t == tokenize(line')
               rest == {t[i] : i \in 2..Len(t)} IN
           /\ t[1] = KW_PRINT =>
                 /\ NewNames \subseteq rest
                 /\ output_lines' # output_lines =>
                       /\ Len(output_lines') = Len(output_lines) + 1
                       /\ IsPrefix(PRINT_HEAD, Last(output_lines'))
                 /\ (Len(t) >= 2 /\ stderr' \notin LimitErrors) =>
                       output_lines' # output_lines
           /\ t[1] = KW_INPUT =>
                 /\ NewNames \subseteq rest
                 /\ output_lines' # output_lines =>
                       /\ Len(output_lines') = Len(output_lines) + 1
                       /\ IsPrefix(SCANF_HEAD, Last(output_lines'))
                 /\ Len(t) # 2 =>
                       /\ output_lines' = output_lines
                       /\ pc' = "exit"
                       /\ stderr' = "input needs one variable"
      ]_state

\* "print = 5" has given the line that prints "= 5", and no variable.
C6_Witness ==
    /\ file = <<KW_PRINT \o <<" ","="," ","5">>>>
    /\ line = KW_PRINT \o <<" ","="," ","5">>
    /\ vars = <<>>
    /\ output_lines = <<PRINT_HEAD \o <<"="," ","5",")",";">>>>

(***************************************************************************)
(* C7.  Blank lines and comment lines of the source change neither the     *)
(* symbol table nor the generated lines: while the driver reads a line of  *)
(* the file that is blank or whose first character after white space is    *)
(* '#', no variable is registered, no line is generated and the run goes   *)
(* on.                                                                     *)
(***************************************************************************)
C7_CommentsChangeNothing ==
    [][ (IsReadStep /\ IsBlankOrComment(file[ln]))
        => /\ vars' = vars
           /\ output_lines' = output_lines
           /\ pc' = "read"
      ]_state

\* The tokens of the declaration of n slots.
DeclTokensOk(toks, n) ==
    /\ Len(toks) = 2 + 4 * n
    /\ toks[1] = <<"l","o","n","g">>
    /\ toks[2] = <<"l","o","n","g">>
    /\ \A k \in 1..n :
          /\ SlotOfRef(toks[4 * k - 1]) = k - 1
          /\ toks[4 * k] = <<"=">>
          /\ toks[4 * k + 1] = <<"0">>
          /\ toks[4 * k + 2] = IF k < n THEN <<",">> ELSE <<";">>

\* The form of the line a statement generates.
LineFits(t, text) ==
    IF t[1] = KW_PRINT THEN IsPrefix(PRINT_HEAD, text)
    ELSE IF t[1] = KW_INPUT THEN IsPrefix(SCANF_HEAD, text)
    ELSE /\ IsPrefix(<<" "," "," "," ","v">>, text)
         /\ IsPrefix(<<" ","="," ">>,
                     SubSeq(text, 5 + Len(Lex(text)[1]), Len(text)))

(***************************************************************************)
(* C8.  The C file written is, in this order: the include line, an empty   *)
(* line and the head of main; one declaration line of the slots            *)
(* 0..var_count-1 in order, each set to 0, if and only if var_count > 0;   *)
(* the generated lines, each once, in the order of the statements of the   *)
(* source; the return line and the closing brace.  No other line is a      *)
(* declaration.                                                            *)
(***************************************************************************)
C8_ProgramLayout ==
    out_file # <<>> =>
        LET n == Len(vars)
            d == IF n > 0 THEN 1 ELSE 0
            m == Len(output_lines)
            stmts == StatementsRead IN
        /\ Len(out_file) = 3 + d + m + 2
        /\ out_file[1] = <<"#","i","n","c","l","u","d","e"," ","<","s","t",
                           "d","i","o",".","h",">">>
        /\ out_file[2] = <<>>
        /\ out_file[3] = <<"i","n","t"," ","m","a","i","n","(",")"," ","{">>
        /\ n > 0 => /\ IsDeclaration(out_file[4])
                    /\ DeclTokensOk(Lex(out_file[4]), n)
        /\ \A i \in 1..Len(out_file) : IsDeclaration(out_file[i]) => i = 3 + d
        /\ m = Len(stmts)
        /\ \A i \in 1..m :
              /\ out_file[3 + d + i] = output_lines[i]
              /\ LineFits(stmts[i], out_file[3 + d + i])
        /\ out_file[3 + d + m + 1] =
              <<" "," "," "," ","r","e","t","u","r","n"," ","0",";">>
        /\ out_file[3 + d + m + 2] = <<"}">>

\* The program of the specification's example: three slots, four lines.
C8_Witness ==
    /\ file = <<L_x_is_5, L_y_is_10, L_result>>
    /\ Len(out_file) = 9
    /\ IsDeclaration(out_file[4])
    /\ out_file[7] = <<" "," "," "," ","v","2"," ","="," ","v","0"," ","+",
                       " ","v","1",";">>

SlotText(table, name) ==
    IF \E i \in 1..Len(table) : table[i] = name
    THEN SlotRef((CHOOSE i \in 1..Len(table) : table[i] = name) - 1)
    ELSE <<"?">>

Items(table, toks) ==
    JoinSp([k \in 1..Len(toks) |->
               IF is_identifier(toks[k]) THEN SlotText(table, toks[k])
               ELSE toks[k]])

PassedThrough(table, toks, text) ==
    IF toks[1] = KW_PRINT
    THEN text = PRINT_HEAD \o Items(table, SubSeq(toks, 2, Len(toks)))
                \o <<")", ";">>
    ELSE IF toks[1] = KW_INPUT THEN TRUE
    ELSE text = <<" "," "," "," ">> \o SlotText(table, toks[1])
                \o <<" ","="," ">>
                \o Items(table, SubSeq(toks, 3, Len(toks))) \o <<";">>

(***************************************************************************)
(* C9.  The line generated for a print statement or an assignment holds    *)
(* one item for every token of the source line after "print", or after     *)
(* the '=', in the same order and a single space apart: the slot reference *)
(* of the token if it is an identifier, the token itself if it is not.     *)
(***************************************************************************)
C9_TokenPassthrough ==
    [][ (IsReadStep /\ output_lines' # output_lines)
        => PassedThrough(vars', Lex(line'), Last(output_lines'))
      ]_state

(***************************************************************************)
(* C10.  The text compile_line builds in its buffer `output` fits the      *)
(* buffer: with its terminator it has at most MAX_LINE bytes.              *)
(***************************************************************************)
C10_OutputFitsBuffer == Len(output) + 1 <= MAX_LINE

=============================================================================
